---- MODULE Spec2Model ----
(***************************************************************************)
(* Model of the i2b2 data source of GeCo: the i2b2 XML envelope            *)
(* (pkg/i2b2api/models/common.go) and the data source with its operation   *)
(* dispatcher (I2b2DataSource: NewI2b2DataSource, Query, logError).        *)
(*                                                                         *)
(* Go values are modelled as follows.                                      *)
(*   string          a TLA+ string ("\o" is Go's "+")                      *)
(*   error           a record [isNil, msg]: NoError is the nil error,      *)
(*                   ErrorsNew(m) the *errorString made by errors.New and  *)
(*                   by fmt.Errorf without %w                              *)
(*   []byte, slices  a record [isNil, val], nil and empty being distinct   *)
(*   time.Duration   a record [neg, ms, ns] standing for the int64 count   *)
(*                   of nanoseconds (+/-)(ms * 10^6 + ns), 0 <= ns < 10^6  *)
(***************************************************************************)
EXTENDS Integers, Sequences, FiniteSets, TLC

VARIABLES
    response,       \* the Response handed to CheckStatus
    statusRet,      \* what the last CheckStatus call returned
    clock,          \* the wall clock read by time.Now(), in ticks after BaseUnix
    req,            \* the Request under construction
    built,          \* the control identifiers of the Requests built so far
    lastOp,         \* the last envelope operation run on req, with its argument
    queryArgs,      \* the arguments of the last Query call
    handlerRet,     \* what the handler run by the last Query call returned
    queryRet,       \* what the last Query call returned
    handlerCalls,   \* how often each handler has been invoked
    lastHandlerCall,\* the handler last invoked, with the arguments it received
    config,         \* the configuration map handed to NewI2b2DataSource
    plugin          \* what NewI2b2DataSource returned

statusVars == <<response, statusRet>>
envelopeVars == <<clock, req, built, lastOp>>
queryVars == <<queryArgs, handlerRet, queryRet, handlerCalls, lastHandlerCall>>
ctorVars == <<config, plugin>>
vars == <<response, statusRet, clock, req, built, lastOp, queryArgs, handlerRet,
          queryRet, handlerCalls, lastHandlerCall, config, plugin>>

----------------------------------------------------------------------------
(* Go values *)

NoError == [isNil |-> TRUE, msg |-> ""]

ErrorsNew(text) == [isNil |-> FALSE, msg |-> text]

NilSlice == [isNil |-> TRUE, val |-> <<>>]

Slice(v) == [isNil |-> FALSE, val |-> v]

NotCalled == [called |-> FALSE]

----------------------------------------------------------------------------
(* Response.CheckStatus *)

StatusTypes == {"DONE", "", "ERROR", "done", "PENDING"}

StatusTexts == {"", "bad query", "DONE"}

PollingURLs == {[Text |-> "", IntervalMs |-> ""],
                [Text |-> "http://hive.example/poll", IntervalMs |-> "100"]}

ConditionLists == {<<>>,
                   <<[Text |-> "query timed out", Type |-> "ERROR", CodingSystem |-> "i2b2"]>>}

Responses ==
    {[ResponseHeader |->
        [ResultStatus |->
            [Status |-> [Text |-> tx, Type |-> ty],
             PollingURL |-> pu,
             Conditions |-> [Condition |-> cs]]]] :
        tx \in StatusTexts, ty \in StatusTypes, pu \in PollingURLs, cs \in ConditionLists}

\* CheckStatus comparing the status type without regard to case
CheckStatusAnyCase(resp) ==
    IF resp.ResponseHeader.ResultStatus.Status.Type \notin {"DONE", "done"}
    THEN ErrorsNew(resp.ResponseHeader.ResultStatus.Status.Text)
    ELSE NoError

CheckStatus(resp) ==
    IF resp.ResponseHeader.ResultStatus.Status.Type # "DONE"
    THEN ErrorsNew(resp.ResponseHeader.ResultStatus.Status.Text)
    ELSE NoError

StatusInit ==
    /\ response \in Responses
    /\ statusRet = NotCalled

\* a reply of the hive is deserialized into a Response
ReceiveResponse ==
    /\ \E r \in Responses : response' = r
    /\ statusRet' = NotCalled
    /\ UNCHANGED <<envelopeVars, queryVars, ctorVars>>

CallCheckStatus ==
    /\ statusRet' = [called |-> TRUE, err |-> CheckStatus(response)]
    /\ UNCHANGED response
    /\ UNCHANGED <<envelopeVars, queryVars, ctorVars>>

StatusNext == ReceiveResponse \/ CallCheckStatus

----------------------------------------------------------------------------
(* strconv.FormatInt(i, 10) *)

Digits == <<"0", "1", "2", "3", "4", "5", "6", "7", "8", "9">>

RECURSIVE FormatUint(_)
FormatUint(n) ==
    IF n < 10 THEN Digits[n + 1]
    ELSE FormatUint(n \div 10) \o Digits[(n % 10) + 1]

FormatInt(i) == IF i < 0 THEN "-" \o FormatUint(-i) ELSE FormatUint(i)

----------------------------------------------------------------------------
(* time.Now(), Time.Unix(), Time.Format(time.RFC3339) *)

\* the wall clock reads BaseUnix seconds (2021-06-01T11:59:59Z) at tick 0
BaseUnix == 1622548799

\* clock ticks per second: time.Now() is finer than the second
TicksPerSecond == 2

MaxTick == 5

\* time.Now() truncated to the minute
NowTruncated ==
    [sec |-> (BaseUnix + (clock \div TicksPerSecond))
             - ((BaseUnix + (clock \div TicksPerSecond)) % 60)]

Now == [sec |-> BaseUnix + (clock \div TicksPerSecond)]

Unix(t) == t.sec

Pad2(n) == IF n < 10 THEN "0" \o FormatUint(n) ELSE FormatUint(n)

\* the civil date (UTC) of a day counted from 1970-01-01
CivilFromDays(days) ==
    LET z == days + 719468
        era == z \div 146097
        doe == z - (era * 146097)
        yoe == (doe - (doe \div 1460) + (doe \div 36524) - (doe \div 146096)) \div 365
        doy == doe - ((365 * yoe) + (yoe \div 4) - (yoe \div 100))
        mp == ((5 * doy) + 2) \div 153
        d == doy - (((153 * mp) + 2) \div 5) + 1
        m == IF mp < 10 THEN mp + 3 ELSE mp - 9
        y == yoe + (era * 400) + (IF m <= 2 THEN 1 ELSE 0)
    IN [year |-> y, month |-> m, day |-> d]

\* layout "2006-01-02T15:04:05Z07:00", the location being UTC
FormatRFC3339(t) ==
    LET date == CivilFromDays(t.sec \div 86400)
        secs == t.sec % 86400
    IN FormatUint(date.year) \o "-" \o Pad2(date.month) \o "-" \o Pad2(date.day)
       \o "T" \o Pad2(secs \div 3600) \o ":" \o Pad2((secs % 3600) \div 60)
       \o ":" \o Pad2(secs % 60) \o "Z"

----------------------------------------------------------------------------
(* time.Duration and ConnectionInfo *)

Duration(neg, ms, ns) == [neg |-> neg /\ (ms > 0 \/ ns > 0), ms |-> ms, ns |-> ns]

\* Duration.Milliseconds(): int64(d) / 1e6, the quotient truncated toward zero
Milliseconds(d) == IF d.neg THEN -d.ms ELSE d.ms

WaitTimes == {Duration(FALSE, 0, 0),        \* 0
              Duration(FALSE, 5000, 0),     \* 5s
              Duration(FALSE, 0, 999999),   \* 999.999us
              Duration(TRUE, 1, 500000),    \* -1.5ms
              Duration(FALSE, 60000, 0)}    \* 1m

Credentials ==
    {[HiveURL |-> "http://hive.example/pm", Domain |-> "d", Username |-> "u",
      Password |-> "p", Project |-> "proj1"],
     [HiveURL |-> "", Domain |-> "", Username |-> "", Password |-> "", Project |-> ""]}

ConnectionInfos ==
    {[HiveURL |-> c.HiveURL, Domain |-> c.Domain, Username |-> c.Username,
      Password |-> c.Password, Project |-> c.Project, WaitTime |-> w] :
        c \in Credentials, w \in WaitTimes}

----------------------------------------------------------------------------
(* Request: NewRequest, NewRequestWithBody, SetConnectionInfo *)

NilBody == [isNil |-> TRUE, val |-> ""]

MessageBodies == {NilBody, [isNil |-> FALSE, val |-> "<get_categories/>"]}

XMLNameZero == [Space |-> "", Local |-> ""]

NewRequestAt(now) ==
    [XMLName |-> XMLNameZero,
     XMLNSMSG |-> "http://www.i2b2.org/xsd/hive/msg/1.1/",
     XMLNSONT |-> "http://www.i2b2.org/xsd/cell/ont/1.1/",
     XMLNSPDO |-> "http://www.i2b2.org/xsd/hive/pdo/1.1/",
     XMLNSCRCPDO |-> "http://www.i2b2.org/xsd/cell/crc/pdo/1.1/",
     XMLNSCRCPSM |-> "http://www.i2b2.org/xsd/cell/crc/psm/1.1/",
     MessageHeader |->
        [XMLName |-> XMLNameZero,
         I2b2VersionCompatible |-> "0.3",
         Hl7VersionCompatible |-> "2.4",
         SendingApplicationApplicationName |-> "GeCo i2b2 Data Source",
         SendingApplicationApplicationVersion |-> "0.2",
         SendingFacilityFacilityName |-> "GeCo",
         ReceivingApplicationApplicationName |-> "i2b2 cell",
         ReceivingApplicationApplicationVersion |-> "1.7",
         ReceivingFacilityFacilityName |-> "i2b2 hive",
         DatetimeOfMessage |-> FormatRFC3339(now),
         SecurityDomain |-> "NOT_SET",
         SecurityUsername |-> "NOT_SET",
         SecurityPassword |-> "NOT_SET",
         MessageTypeMessageCode |-> "EQQ",
         MessageTypeEventType |-> "Q04",
         MessageTypeMessageStructure |-> "EQQ_Q04",
         MessageControlIDSessionID |-> FormatRFC3339(now),
         MessageControlIDMessageNum |-> FormatInt(Unix(now)),
         MessageControlIDInstanceNum |-> "0",
         ProcessingIDProcessingID |-> "P",
         ProcessingIDProcessingMode |-> "I",
         AcceptAcknowledgementType |-> "messageId",
         ApplicationAcknowledgementType |-> "",
         CountryCode |-> "CH",
         ProjectID |-> "NOT_SET"],
     RequestHeader |-> [XMLName |-> XMLNameZero, ResultWaittimeMs |-> "NOT_SET"],
     MessageBody |-> NilBody]

NewRequestWithBodyAt(now, body) == [NewRequestAt(now) EXCEPT !.MessageBody = body]

\* SetConnectionInfo assigning a new MessageHeader that holds the four fields only
SetConnectionInfoNewHeader(r, ci) ==
    [r EXCEPT !.MessageHeader =
                    [f \in DOMAIN r.MessageHeader |->
                        CASE f = "SecurityDomain" -> ci.Domain
                          [] f = "SecurityUsername" -> ci.Username
                          [] f = "SecurityPassword" -> ci.Password
                          [] f = "ProjectID" -> ci.Project
                          [] f = "XMLName" -> r.MessageHeader.XMLName
                          [] OTHER -> ""],
              !.RequestHeader.ResultWaittimeMs = FormatInt(Milliseconds(ci.WaitTime))]

\* SetConnectionInfo writing the wait-time in whole seconds
SetConnectionInfoSeconds(r, ci) ==
    [r EXCEPT !.MessageHeader.SecurityDomain = ci.Domain,
              !.MessageHeader.SecurityUsername = ci.Username,
              !.MessageHeader.SecurityPassword = ci.Password,
              !.MessageHeader.ProjectID = ci.Project,
              !.RequestHeader.ResultWaittimeMs =
                    FormatInt(Milliseconds(ci.WaitTime) \div 1000)]

SetConnectionInfo(r, ci) ==
    [r EXCEPT !.MessageHeader.SecurityDomain = ci.Domain,
              !.MessageHeader.SecurityUsername = ci.Username,
              !.MessageHeader.SecurityPassword = ci.Password,
              !.MessageHeader.ProjectID = ci.Project,
              !.RequestHeader.ResultWaittimeMs = FormatInt(Milliseconds(ci.WaitTime))]

MaxRequests == 3

NoRequest == [isNil |-> TRUE]

NoOp == [name |-> "none"]

\* the control identifier of a Request built, with the clock tick it was built at
Built(tick, r) ==
    [tick |-> tick,
     SessionID |-> r.MessageHeader.MessageControlIDSessionID,
     MessageNum |-> r.MessageHeader.MessageControlIDMessageNum,
     InstanceNum |-> r.MessageHeader.MessageControlIDInstanceNum]

EnvelopeInit ==
    /\ clock = 0
    /\ req = NoRequest
    /\ built = <<>>
    /\ lastOp = NoOp

\* time passes
Tick ==
    /\ clock < MaxTick
    /\ clock' = clock + 1
    /\ UNCHANGED <<req, built, lastOp>>
    /\ UNCHANGED <<statusVars, queryVars, ctorVars>>

NewRequest ==
    /\ Len(built) < MaxRequests
    /\ req' = NewRequestAt(Now)
    /\ built' = Append(built, Built(clock, req'))
    /\ lastOp' = [name |-> "NewRequest"]
    /\ UNCHANGED clock
    /\ UNCHANGED <<statusVars, queryVars, ctorVars>>

NewRequestWithBody ==
    /\ Len(built) < MaxRequests
    /\ \E body \in MessageBodies :
        /\ req' = NewRequestWithBodyAt(Now, body)
        /\ lastOp' = [name |-> "NewRequestWithBody", body |-> body]
    /\ built' = Append(built, Built(clock, req'))
    /\ UNCHANGED clock
    /\ UNCHANGED <<statusVars, queryVars, ctorVars>>

CallSetConnectionInfo ==
    /\ req # NoRequest
    /\ \E ci \in ConnectionInfos :
        /\ req' = SetConnectionInfo(req, ci)
        /\ lastOp' = [name |-> "SetConnectionInfo", ci |-> ci,
                       again |-> lastOp.name = "SetConnectionInfo" /\ lastOp.ci = ci]
    /\ UNCHANGED <<clock, built>>
    /\ UNCHANGED <<statusVars, queryVars, ctorVars>>

EnvelopeNext == Tick \/ NewRequest \/ NewRequestWithBody \/ CallSetConnectionInfo

----------------------------------------------------------------------------
(* I2b2DataSource.logError and I2b2DataSource.Query *)

\* fmt.Errorf("%v", errMsg) and fmt.Errorf("%v: %v", errMsg, causedBy)
logError(errMsg, causedBy) ==
    IF causedBy.isNil
    THEN ErrorsNew(errMsg)
    ELSE ErrorsNew(errMsg \o ": " \o causedBy.msg)

OperationSearchConcept == "search-concept"
OperationSearchModifier == "search-modifier"
OperationExploreQuery == "explore-query"
OperationGetCohorts == "get-cohorts"
OperationAddCohort == "add-cohort"
OperationDeleteCohort == "delete-cohort"
OperationSurvivalQuery == "survival-query"
OperationSearchOntology == "search-ontology"

Handlers == {"SearchConceptHandler", "SearchModifierHandler", "ExploreQueryHandler",
             "GetCohortsHandler", "AddCohortHandler", "DeleteCohortHandler"}

Invoke(h) == [kind |-> "invoke", handler |-> h]

Return(e) == [kind |-> "return", err |-> e]

\* the switch with its default case falling into the last handler case
DispatchDefaultToHandler(operation) ==
    CASE operation = OperationSearchConcept -> Invoke("SearchConceptHandler")
      [] operation = OperationSearchModifier -> Invoke("SearchModifierHandler")
      [] operation = OperationExploreQuery -> Invoke("ExploreQueryHandler")
      [] operation = OperationGetCohorts -> Invoke("GetCohortsHandler")
      [] operation = OperationAddCohort -> Invoke("AddCohortHandler")
      [] operation = OperationSurvivalQuery ->
            Return(ErrorsNew("operation survivalQuery not implemented"))
      [] operation = OperationSearchOntology ->
            Return(ErrorsNew("operation searchOntology not implemented"))
      [] OTHER -> Invoke("DeleteCohortHandler")

\* the switch without the cases of the two operations that are not implemented
DispatchWithoutReserved(operation) ==
    CASE operation = OperationSearchConcept -> Invoke("SearchConceptHandler")
      [] operation = OperationSearchModifier -> Invoke("SearchModifierHandler")
      [] operation = OperationExploreQuery -> Invoke("ExploreQueryHandler")
      [] operation = OperationGetCohorts -> Invoke("GetCohortsHandler")
      [] operation = OperationAddCohort -> Invoke("AddCohortHandler")
      [] operation = OperationDeleteCohort -> Invoke("DeleteCohortHandler")
      [] OTHER -> Return(ErrorsNew("unknown query requested (" \o operation \o ")"))

\* the switch with the handlers of add-cohort and delete-cohort exchanged
DispatchSwapped(operation) ==
    CASE operation = OperationSearchConcept -> Invoke("SearchConceptHandler")
      [] operation = OperationSearchModifier -> Invoke("SearchModifierHandler")
      [] operation = OperationExploreQuery -> Invoke("ExploreQueryHandler")
      [] operation = OperationGetCohorts -> Invoke("GetCohortsHandler")
      [] operation = OperationAddCohort -> Invoke("DeleteCohortHandler")
      [] operation = OperationDeleteCohort -> Invoke("AddCohortHandler")
      [] operation = OperationSurvivalQuery ->
            Return(ErrorsNew("operation survivalQuery not implemented"))
      [] operation = OperationSearchOntology ->
            Return(ErrorsNew("operation searchOntology not implemented"))
      [] OTHER -> Return(ErrorsNew("unknown query requested (" \o operation \o ")"))

\* the switch of Query: the handler to invoke, or the error to return at once
Dispatch(operation) ==
    CASE operation = OperationSearchConcept -> Invoke("SearchConceptHandler")
      [] operation = OperationSearchModifier -> Invoke("SearchModifierHandler")
      [] operation = OperationExploreQuery -> Invoke("ExploreQueryHandler")
      [] operation = OperationGetCohorts -> Invoke("GetCohortsHandler")
      [] operation = OperationAddCohort -> Invoke("AddCohortHandler")
      [] operation = OperationDeleteCohort -> Invoke("DeleteCohortHandler")
      [] operation = OperationSurvivalQuery ->
            Return(logError("operation survivalQuery not implemented", NoError))
      [] operation = OperationSearchOntology ->
            Return(logError("operation searchOntology not implemented", NoError))
      [] OTHER ->
            Return(logError("unknown query requested (" \o operation \o ")", NoError))

Results(jsonResults, outputDataObjects, err) ==
    [jsonResults |-> jsonResults, outputDataObjects |-> outputDataObjects, err |-> err]

\* Query returning the handler's results and output objects beside the error
AfterHandlerPartial(operation, hr) ==
    IF ~hr.err.isNil
    THEN Results(hr.jsonResults, hr.outputDataObjects,
                 logError("executing operation " \o operation, hr.err))
    ELSE Results(hr.jsonResults, hr.outputDataObjects, hr.err)

\* Query returning no output objects at all
AfterHandlerNoOutputs(operation, hr) ==
    IF ~hr.err.isNil
    THEN Results(NilSlice, NilSlice, logError("executing operation " \o operation, hr.err))
    ELSE Results(hr.jsonResults, NilSlice, hr.err)

\* what Query returns once the handler has returned hr
AfterHandler(operation, hr) ==
    IF ~hr.err.isNil
    THEN Results(NilSlice, NilSlice, logError("executing operation " \o operation, hr.err))
    ELSE Results(hr.jsonResults, hr.outputDataObjects, hr.err)

UserIDs == {"alice", ""}

OperationNames ==
    {OperationSearchConcept, OperationSearchModifier, OperationExploreQuery,
     OperationGetCohorts, OperationAddCohort, OperationDeleteCohort,
     OperationSurvivalQuery, OperationSearchOntology,
     "", "survivalQuery", "drop-cohort"}

JSONParameters == {NilSlice, Slice("{limit: 10}")}

NilMap == [isNil |-> TRUE, val |-> <<>>]

SharedIDs == {NilMap,
              [isNil |-> FALSE, val |-> [count |-> "shared-1", patientList |-> "shared-2"]]}

\* the errors a handler may return
HandlerErrors ==
    {NoError, ErrorsNew(""), ErrorsNew("i2b2 error: bad query"),
     ErrorsNew("operation survivalQuery not implemented")}

\* whatever a handler may return: results and output objects also beside an error
HandlerResults ==
    {Results(r[1], r[2], e) :
        r \in {<<NilSlice, NilSlice>>,
               <<Slice("{count: 42}"), NilSlice>>,
               <<Slice("{count: 42}"),
                 Slice(<<[OutputName |-> "count", SharedID |-> "shared-1"]>>)>>},
        e \in HandlerErrors}

MaxHandlerCalls == 2

RECURSIVE Total(_, _)
Total(f, S) ==
    IF S = {} THEN 0
    ELSE LET x == CHOOSE y \in S : TRUE IN f[x] + Total(f, S \ {x})

NoCall == [isNil |-> TRUE]

QueryInit ==
    /\ queryArgs = NotCalled
    /\ handlerRet = NotCalled
    /\ queryRet = NotCalled
    /\ handlerCalls = [h \in Handlers |-> 0]
    /\ lastHandlerCall = NoCall

Query ==
    /\ UNCHANGED <<statusVars, envelopeVars, ctorVars>>
    /\ \E userID \in UserIDs, operation \in OperationNames,
       jsonParameters \in JSONParameters, outputDataObjectsSharedIDs \in SharedIDs :
        LET d == Dispatch(operation) IN
        /\ queryArgs' = [called |-> TRUE, userID |-> userID, operation |-> operation,
                         jsonParameters |-> jsonParameters,
                         outputDataObjectsSharedIDs |-> outputDataObjectsSharedIDs]
        /\ IF d.kind = "return"
           THEN /\ queryRet' = Results(NilSlice, NilSlice, d.err)
                /\ handlerRet' = NotCalled
                /\ lastHandlerCall' = NoCall
                /\ UNCHANGED handlerCalls
           ELSE /\ Total(handlerCalls, Handlers) < MaxHandlerCalls
                /\ handlerCalls' = [handlerCalls EXCEPT ![d.handler] = @ + 1]
                /\ lastHandlerCall' =
                        [isNil |-> FALSE, handler |-> d.handler, userID |-> userID,
                         jsonParameters |-> jsonParameters,
                         outputDataObjectsSharedIDs |-> outputDataObjectsSharedIDs]
                /\ \E hr \in HandlerResults :
                        /\ handlerRet' = [called |-> TRUE, ret |-> hr]
                        /\ queryRet' = AfterHandler(operation, hr)

QueryNext == Query

----------------------------------------------------------------------------
(* time.ParseDuration: an optional sign, then one or more components, each  *)
(* a decimal number (digits, optionally a point and digits) and a unit.     *)
(* A string to parse is a sequence of one-character strings.  The overflow  *)
(* tests of the parser are left out: no string of the lengths drawn here    *)
(* comes near 2^63 nanoseconds.                                             *)

IsDigit(c) == \E i \in 1..10 : Digits[i] = c

DigitVal(c) == (CHOOSE i \in 1..10 : Digits[i] = c) - 1

RECURSIVE Join(_)
Join(s) == IF s = <<>> THEN "" ELSE Head(s) \o Join(Tail(s))

quote(s) == "\"" \o Join(s) \o "\""

RECURSIVE leadingInt(_, _)
leadingInt(x, s) ==
    IF s # <<>> /\ IsDigit(Head(s))
    THEN leadingInt((x * 10) + DigitVal(Head(s)), Tail(s))
    ELSE [x |-> x, rem |-> s]

RECURSIVE leadingFraction(_, _, _)
leadingFraction(x, scale, s) ==
    IF s # <<>> /\ IsDigit(Head(s))
    THEN leadingFraction((x * 10) + DigitVal(Head(s)), scale * 10, Tail(s))
    ELSE [x |-> x, scale |-> scale, rem |-> s]

\* the length of the unit: the characters up to the next '.' or digit
RECURSIVE UnitLen(_)
UnitLen(s) ==
    IF s = <<>> \/ Head(s) = "." \/ IsDigit(Head(s)) THEN 0 ELSE 1 + UnitLen(Tail(s))

\* unitMap, each unit as [ms, ns]: ms * 10^6 + ns nanoseconds
unitMap ==
    [u \in {"ns", "us", "ms", "s", "m", "h"} |->
        CASE u = "ns" -> [ms |-> 0, ns |-> 1]
          [] u = "us" -> [ms |-> 0, ns |-> 1000]
          [] u = "ms" -> [ms |-> 1, ns |-> 0]
          [] u = "s" -> [ms |-> 1000, ns |-> 0]
          [] u = "m" -> [ms |-> 60000, ns |-> 0]
          [] u = "h" -> [ms |-> 3600000, ns |-> 0]]

NsPerMs == 1000000

\* v * unit + uint64(float64(f) * (float64(unit) / scale)), as [ms, ns]
Component(v, f, scale, unit) ==
    LET whole == (v * unit.ns) + ((f * unit.ns) \div scale)
        x == f * unit.ms
        ns == whole + ((x % scale) * (NsPerMs \div scale))
    IN [ms |-> (v * unit.ms) + (x \div scale) + (ns \div NsPerMs), ns |-> ns % NsPerMs]

Plus(d, c) ==
    [ms |-> d.ms + c.ms + ((d.ns + c.ns) \div NsPerMs), ns |-> (d.ns + c.ns) % NsPerMs]

Parsed(d) == [d |-> d, err |-> NoError]

ParseFailed(msg) == [d |-> Duration(FALSE, 0, 0), err |-> ErrorsNew(msg)]

\* the loop of ParseDuration over the components left in s, d being their sum so far
RECURSIVE ParseComponents(_, _, _, _)
ParseComponents(orig, neg, d, s) ==
    IF s = <<>> THEN Parsed(Duration(neg, d.ms, d.ns))
    ELSE IF ~(Head(s) = "." \/ IsDigit(Head(s)))
    THEN ParseFailed("time: invalid duration " \o quote(orig))
    ELSE
        LET li == leadingInt(0, s)
            pre == Len(li.rem) # Len(s)
            dot == li.rem # <<>> /\ Head(li.rem) = "."
            lf == IF dot THEN leadingFraction(0, 1, Tail(li.rem))
                  ELSE [x |-> 0, scale |-> 1, rem |-> li.rem]
            post == dot /\ Len(lf.rem) # Len(Tail(li.rem))
            i == UnitLen(lf.rem)
            u == Join(SubSeq(lf.rem, 1, i))
        IN  IF ~pre /\ ~post
            THEN ParseFailed("time: invalid duration " \o quote(orig))
            ELSE IF i = 0
            THEN ParseFailed("time: missing unit in duration " \o quote(orig))
            ELSE IF u \notin DOMAIN unitMap
            THEN ParseFailed("time: unknown unit " \o quote(SubSeq(lf.rem, 1, i))
                             \o " in duration " \o quote(orig))
            ELSE ParseComponents(orig, neg,
                                 Plus(d, Component(li.x, lf.x, lf.scale, unitMap[u])),
                                 SubSeq(lf.rem, i + 1, Len(lf.rem)))

ParseDuration(orig) ==
    LET signed == orig # <<>> /\ Head(orig) \in {"-", "+"}
        neg == signed /\ Head(orig) = "-"
        s == IF signed THEN Tail(orig) ELSE orig
    IN  IF s = <<"0">> THEN Parsed(Duration(FALSE, 0, 0))
        ELSE IF s = <<>> THEN ParseFailed("time: invalid duration " \o quote(orig))
        ELSE ParseComponents(orig, neg, [ms |-> 0, ns |-> 0], s)

----------------------------------------------------------------------------
(* NewI2b2DataSource *)

DataSourceType == "i2b2-geco"

\* the characters wait-time strings are made of
DurationChars == {"0", "5", ".", "m", "s", "-"}

MaxWaitTimeLen == 4

RECURSIVE StringsUpTo(_)
StringsUpTo(n) ==
    IF n = 0 THEN {<<>>}
    ELSE LET shorter == StringsUpTo(n - 1)
         IN shorter \cup {Append(s, c) : s \in {t \in shorter : Len(t) = n - 1},
                                         c \in DurationChars}

WaitTimeStrings == StringsUpTo(MaxWaitTimeLen)

CredentialKeys == {"i2b2.api.url", "i2b2.api.domain", "i2b2.api.username",
                   "i2b2.api.password", "i2b2.api.project"}

\* the i2b2 keys with a value each, or with one or all of the values empty
CredentialConfigs ==
    LET full == [k \in CredentialKeys |->
                    CASE k = "i2b2.api.url" -> "http://hive.example/pm"
                      [] k = "i2b2.api.domain" -> "d"
                      [] k = "i2b2.api.username" -> "u"
                      [] k = "i2b2.api.password" -> "p"
                      [] k = "i2b2.api.project" -> "proj1"]
    IN {full, [k \in CredentialKeys |-> ""]}
       \cup {[full EXCEPT ![e] = ""] : e \in CredentialKeys}

Configs ==
    {[k \in CredentialKeys \cup {"i2b2.api.wait-time", "i2b2.api.ont-max-elements"} |->
        IF k = "i2b2.api.wait-time" THEN w
        ELSE IF k = "i2b2.api.ont-max-elements" THEN "200"
        ELSE c[k]] : c \in CredentialConfigs, w \in WaitTimeStrings}

\* the errors database.NewPostgresDatabase may return
DatabaseErrors == {NoError, ErrorsNew("dial tcp 127.0.0.1:5432: connect: connection refused")}

NilDataSource == [isNil |-> TRUE]

\* NewI2b2DataSource going on with a zero wait-time when the parse fails
NewI2b2DataSourceDefaultWait(cfg, dbErr) ==
    IF ~dbErr.isNil
    THEN [plugin |-> NilDataSource,
          err |-> logError("initializing database connection", dbErr)]
    ELSE [plugin |-> [isNil |-> FALSE,
                      Type |-> DataSourceType,
                      i2b2Client |->
                        [Ci |-> [HiveURL |-> cfg["i2b2.api.url"],
                                 Domain |-> cfg["i2b2.api.domain"],
                                 Username |-> cfg["i2b2.api.username"],
                                 Password |-> cfg["i2b2.api.password"],
                                 Project |-> cfg["i2b2.api.project"],
                                 WaitTime |-> ParseDuration(cfg["i2b2.api.wait-time"]).d]],
                      i2b2OntMaxElements |-> cfg["i2b2.api.ont-max-elements"]],
          err |-> NoError]

NewI2b2DataSource(cfg, dbErr) ==
    IF ~dbErr.isNil
    THEN [plugin |-> NilDataSource,
          err |-> logError("initializing database connection", dbErr)]
    ELSE
        LET parsed == ParseDuration(cfg["i2b2.api.wait-time"])
            ci == [HiveURL |-> cfg["i2b2.api.url"],
                   Domain |-> cfg["i2b2.api.domain"],
                   Username |-> cfg["i2b2.api.username"],
                   Password |-> cfg["i2b2.api.password"],
                   Project |-> cfg["i2b2.api.project"],
                   WaitTime |-> parsed.d]
        IN  IF ~parsed.err.isNil
            THEN [plugin |-> NilDataSource,
                  err |-> logError("parsing i2b2 wait time", parsed.err)]
            ELSE [plugin |-> [isNil |-> FALSE,
                              Type |-> DataSourceType,
                              i2b2Client |-> [Ci |-> ci],
                              i2b2OntMaxElements |-> cfg["i2b2.api.ont-max-elements"]],
                  err |-> NoError]

CtorInit ==
    /\ config \in Configs
    /\ plugin = NotCalled

CallNewI2b2DataSource ==
    /\ \E dbErr \in DatabaseErrors :
        plugin' = [called |-> TRUE, dbErr |-> dbErr, ret |-> NewI2b2DataSource(config, dbErr)]
    /\ UNCHANGED config
    /\ UNCHANGED <<statusVars, envelopeVars, queryVars>>

CtorNext == CallNewI2b2DataSource

----------------------------------------------------------------------------
(* specifications: one per component, the other components standing still *)

StatusIdle ==
    /\ response = CHOOSE r \in Responses : TRUE
    /\ statusRet = NotCalled

CtorIdle ==
    /\ config = CHOOSE c \in Configs : c["i2b2.api.wait-time"] = <<>>
    /\ plugin = NotCalled

InitStatus == StatusInit /\ EnvelopeInit /\ QueryInit /\ CtorIdle

SpecStatus == InitStatus /\ [][StatusNext]_vars

InitEnvelope == StatusIdle /\ EnvelopeInit /\ QueryInit /\ CtorIdle

SpecEnvelope == InitEnvelope /\ [][EnvelopeNext]_vars

InitQuery == StatusIdle /\ EnvelopeInit /\ QueryInit /\ CtorIdle

SpecQuery == InitQuery /\ [][QueryNext]_vars

InitCtor == StatusIdle /\ EnvelopeInit /\ QueryInit /\ CtorInit

SpecCtor == InitCtor /\ [][CtorNext]_vars

----------------------------------------------------------------------------
(* the claims *)

ImplementedOperations ==
    {"search-concept", "search-modifier", "explore-query", "get-cohorts", "add-cohort",
     "delete-cohort"}

ReservedOperations == {"survival-query", "search-ontology"}

\* C1: CheckStatus returns no error if and only if the status type is exactly
\* "DONE"; for every other type, whatever the polling descriptor and the conditions,
\* it returns an error whose message is the status text verbatim, the empty text
\* included.
C1_CheckStatusIffDone ==
    statusRet.called =>
        LET status == response.ResponseHeader.ResultStatus.Status IN
        /\ statusRet.err.isNil <=> status.Type = "DONE"
        /\ status.Type # "DONE" => /\ ~statusRet.err.isNil
                                   /\ statusRet.err.msg = status.Text

\* CheckStatus has failed on an empty status type with an empty text, a polling
\* descriptor and a condition being present
C1_Witness ==
    /\ statusRet.called
    /\ response.ResponseHeader.ResultStatus.Status = [Text |-> "", Type |-> ""]
    /\ response.ResponseHeader.ResultStatus.PollingURL.Text # ""
    /\ response.ResponseHeader.ResultStatus.Conditions.Condition # <<>>
    /\ ~statusRet.err.isNil
    /\ statusRet.err.msg = ""

\* C2: a Query with an operation name that is neither implemented nor reserved
\* returns the "unknown query requested" error with nil results and nil output
\* objects, and invokes no handler: no handler's call count changes.
C2_UnknownOperation ==
    [][(queryArgs'.called
        /\ queryArgs'.operation \notin ImplementedOperations \cup ReservedOperations)
       => /\ queryRet'.jsonResults = NilSlice
          /\ queryRet'.outputDataObjects = NilSlice
          /\ ~queryRet'.err.isNil
          /\ queryRet'.err.msg = "unknown query requested (" \o queryArgs'.operation \o ")"
          /\ handlerCalls' = handlerCalls
          /\ lastHandlerCall' = NoCall
          /\ handlerRet' = NotCalled]_vars

\* an unknown operation has been queried after a handler had run
C2_Witness ==
    /\ queryArgs.called
    /\ queryArgs.operation = "drop-cohort"
    /\ queryRet.err.msg = "unknown query requested (drop-cohort)"
    /\ lastHandlerCall = NoCall
    /\ Total(handlerCalls, Handlers) = 1

\* the messages of the errors Query returns for the names it does not recognise
UnknownOperationMessages ==
    {"unknown query requested (" \o o \o ")" :
        o \in OperationNames \ (ImplementedOperations \cup ReservedOperations)}

\* the messages of the errors Query returns when a handler has failed
HandlerErrorMessages ==
    {"executing operation " \o o \o ": " \o hr.err.msg :
        o \in ImplementedOperations, hr \in {r \in HandlerResults : ~r.err.isNil}}

\* C3: a Query with survival-query or search-ontology returns a "not implemented"
\* error with nil results and nil output objects and invokes no handler; the error
\* is none of those returned for an unrecognised name or for a failed handler.
C3_NotImplemented ==
    [][(queryArgs'.called /\ queryArgs'.operation \in ReservedOperations)
       => /\ queryRet'.jsonResults = NilSlice
          /\ queryRet'.outputDataObjects = NilSlice
          /\ ~queryRet'.err.isNil
          /\ queryRet'.err.msg =
                IF queryArgs'.operation = "survival-query"
                THEN "operation survivalQuery not implemented"
                ELSE "operation searchOntology not implemented"
          /\ queryRet'.err.msg \notin UnknownOperationMessages \cup HandlerErrorMessages
          /\ handlerCalls' = handlerCalls
          /\ lastHandlerCall' = NoCall
          /\ handlerRet' = NotCalled]_vars

\* survival-query has been queried after a handler had run
C3_Witness ==
    /\ queryArgs.called
    /\ queryArgs.operation = "survival-query"
    /\ queryRet.err.msg = "operation survivalQuery not implemented"
    /\ lastHandlerCall = NoCall
    /\ Total(handlerCalls, Handlers) = 1

\* C4: when the handler returns an error, Query returns an error whose message
\* names the operation and carries the message of the handler's error verbatim
\* ("executing operation <operation>: <cause>"), and returns nil results and nil
\* output objects, whatever the handler returned beside its error; any error of
\* Query comes with nil results and nil output objects.
C4_HandlerErrorWrapped ==
    queryArgs.called =>
        /\ (handlerRet.called /\ ~handlerRet.ret.err.isNil) =>
                /\ ~queryRet.err.isNil
                /\ queryRet.err.msg = "executing operation " \o queryArgs.operation
                                      \o ": " \o handlerRet.ret.err.msg
        /\ ~queryRet.err.isNil => /\ queryRet.jsonResults = NilSlice
                                  /\ queryRet.outputDataObjects = NilSlice

\* a handler has returned results and output objects beside an error
C4_Witness ==
    /\ queryArgs.called
    /\ queryArgs.operation = "explore-query"
    /\ handlerRet.called
    /\ handlerRet.ret.err = ErrorsNew("i2b2 error: bad query")
    /\ handlerRet.ret.jsonResults # NilSlice
    /\ handlerRet.ret.outputDataObjects # NilSlice
    /\ queryRet.err.msg = "executing operation explore-query: i2b2 error: bad query"
    /\ queryRet.outputDataObjects = NilSlice

\* C5: when the handler returns a nil error, Query returns the results and the
\* output objects the handler returned, unmodified, and a nil error.
C5_SuccessUnmodified ==
    (queryArgs.called /\ handlerRet.called /\ handlerRet.ret.err.isNil) =>
        /\ queryRet.jsonResults = handlerRet.ret.jsonResults
        /\ queryRet.outputDataObjects = handlerRet.ret.outputDataObjects
        /\ queryRet.err.isNil

\* a handler has returned results and an output object, and no error
C5_Witness ==
    /\ queryArgs.called
    /\ handlerRet.called
    /\ handlerRet.ret.err.isNil
    /\ handlerRet.ret.jsonResults = Slice("{count: 42}")
    /\ handlerRet.ret.outputDataObjects # NilSlice
    /\ queryRet.outputDataObjects = handlerRet.ret.outputDataObjects

\* the handler assigned to each implemented operation
AssignedHandler ==
    [o \in ImplementedOperations |->
        CASE o = "search-concept" -> "SearchConceptHandler"
          [] o = "search-modifier" -> "SearchModifierHandler"
          [] o = "explore-query" -> "ExploreQueryHandler"
          [] o = "get-cohorts" -> "GetCohortsHandler"
          [] o = "add-cohort" -> "AddCohortHandler"
          [] o = "delete-cohort" -> "DeleteCohortHandler"]

\* C6: a Query with one of the six implemented operations invokes the handler
\* assigned to that operation once and no other handler, with the caller's user
\* identifier, parameters and shared identifiers unchanged; this is so at every
\* call, whatever the calls before it.
C6_OneHandlerOnce ==
    [][(queryArgs'.called /\ queryArgs'.operation \in ImplementedOperations)
       => /\ handlerCalls' =
                [handlerCalls EXCEPT ![AssignedHandler[queryArgs'.operation]] = @ + 1]
          /\ lastHandlerCall' =
                [isNil |-> FALSE,
                 handler |-> AssignedHandler[queryArgs'.operation],
                 userID |-> queryArgs'.userID,
                 jsonParameters |-> queryArgs'.jsonParameters,
                 outputDataObjectsSharedIDs |-> queryArgs'.outputDataObjectsSharedIDs]
          /\ handlerRet'.called]_vars

\* delete-cohort has been queried after add-cohort
C6_Witness ==
    /\ queryArgs.called
    /\ queryArgs.operation = "delete-cohort"
    /\ queryArgs.userID = "alice"
    /\ lastHandlerCall # NoCall
    /\ lastHandlerCall.handler = "DeleteCohortHandler"
    /\ lastHandlerCall.userID = "alice"
    /\ handlerCalls["DeleteCohortHandler"] = 1
    /\ handlerCalls["AddCohortHandler"] = 1

ConnectionFields == {"SecurityDomain", "SecurityUsername", "SecurityPassword", "ProjectID"}

Namespaces == {"XMLNSMSG", "XMLNSONT", "XMLNSPDO", "XMLNSCRCPDO", "XMLNSCRCPSM"}

\* C7: SetConnectionInfo overwrites the Message Header fields SecurityDomain,
\* SecurityUsername, SecurityPassword and ProjectID and the wait-time of the Request
\* Header, and leaves every other field of the Message Header, the namespaces and
\* the message body as they were; applied once more with the same ConnectionInfo
\* it leaves the Request as it is.
C7_SetConnectionInfoFrame ==
    [][lastOp'.name = "SetConnectionInfo"
       => /\ req'.MessageHeader.SecurityDomain = lastOp'.ci.Domain
          /\ req'.MessageHeader.SecurityUsername = lastOp'.ci.Username
          /\ req'.MessageHeader.SecurityPassword = lastOp'.ci.Password
          /\ req'.MessageHeader.ProjectID = lastOp'.ci.Project
          /\ \A f \in (DOMAIN req.MessageHeader) \ ConnectionFields :
                req'.MessageHeader[f] = req.MessageHeader[f]
          /\ DOMAIN req'.MessageHeader = DOMAIN req.MessageHeader
          /\ \A n \in Namespaces : req'[n] = req[n]
          /\ req'.XMLName = req.XMLName
          /\ req'.RequestHeader.XMLName = req.RequestHeader.XMLName
          /\ req'.MessageBody = req.MessageBody
          /\ lastOp'.again => req' = req]_vars

\* SetConnectionInfo has been applied twice with the same ConnectionInfo to a
\* Request that has a body
C7_Witness ==
    /\ lastOp.name = "SetConnectionInfo"
    /\ lastOp.again
    /\ lastOp.ci.Domain = "d"
    /\ req.MessageHeader.SecurityDomain = "d"
    /\ req.MessageHeader.CountryCode = "CH"
    /\ req.MessageBody # NilBody

\* the second of the wall clock at a tick
SecondAt(tick) == 1622548799 + (tick \div TicksPerSecond)

ControlID(b) == <<b.SessionID, b.MessageNum>>

\* C8 as stated: no two Requests built have the same pair of session id and
\* message number, also when they are built in immediate succession.
C8_UniqueControlID ==
    \A i, j \in 1..Len(built) : i # j => ControlID(built[i]) # ControlID(built[j])

\* C8, amended: no two Requests built in different seconds of the wall clock have
\* the same pair of session id and message number, and Requests built within the
\* same second have the same pair; the session id is the creation time as an
\* RFC 3339 string to the second, the message number the creation time in seconds
\* since the epoch, the instance number "0".
C8_UniqueAcrossSeconds ==
    /\ \A i, j \in 1..Len(built) :
            (SecondAt(built[i].tick) # SecondAt(built[j].tick))
                <=> (ControlID(built[i]) # ControlID(built[j]))
    /\ \A i \in 1..Len(built) :
            /\ built[i].InstanceNum = "0"
            /\ SecondAt(built[i].tick) = 1622548799
                => ControlID(built[i]) = <<"2021-06-01T11:59:59Z", "1622548799">>
            /\ SecondAt(built[i].tick) = 1622548800
                => ControlID(built[i]) = <<"2021-06-01T12:00:00Z", "1622548800">>
            /\ SecondAt(built[i].tick) = 1622548801
                => ControlID(built[i]) = <<"2021-06-01T12:00:01Z", "1622548801">>

\* three Requests have been built, two in one second and one in the next
C8_Witness ==
    /\ Len(built) = 3
    /\ SecondAt(built[1].tick) = SecondAt(built[2].tick)
    /\ SecondAt(built[3].tick) = SecondAt(built[2].tick) + 1
    /\ ControlID(built[1]) = ControlID(built[2])
    /\ ControlID(built[3]) # ControlID(built[2])

\* C9: with a wait-time that does not parse as a duration, NewI2b2DataSource
\* returns an error and no data source; empty values of the endpoint, domain,
\* username, password and project are not rejected: they reach the ConnectionInfo
\* as they are.
C9_WaitTimeFailsClosed ==
    plugin.called =>
        LET waitTime == config["i2b2.api.wait-time"]
            unparsable == \/ ~ParseDuration(waitTime).err.isNil
                          \/ waitTime \in {<<>>, <<"5">>, <<"s">>, <<"-">>, <<".", "s">>,
                                           <<"5", "s", "m">>, <<"5", "s", "-">>}
        IN
        /\ unparsable => /\ plugin.ret.plugin = NilDataSource
                         /\ ~plugin.ret.err.isNil
        /\ plugin.ret.err.isNil => plugin.ret.plugin # NilDataSource
        /\ (plugin.dbErr.isNil /\ ~unparsable) =>
                /\ plugin.ret.err.isNil
                /\ plugin.ret.plugin # NilDataSource
                /\ plugin.ret.plugin.i2b2Client.Ci.HiveURL = config["i2b2.api.url"]
                /\ plugin.ret.plugin.i2b2Client.Ci.Domain = config["i2b2.api.domain"]
                /\ plugin.ret.plugin.i2b2Client.Ci.Username = config["i2b2.api.username"]
                /\ plugin.ret.plugin.i2b2Client.Ci.Password = config["i2b2.api.password"]
                /\ plugin.ret.plugin.i2b2Client.Ci.Project = config["i2b2.api.project"]
        /\ (plugin.dbErr.isNil /\ waitTime = <<"5", "s">>) =>
                /\ plugin.ret.err.isNil
                /\ Milliseconds(plugin.ret.plugin.i2b2Client.Ci.WaitTime) = 5000

\* the database being reachable and the credentials set, a wait-time without a
\* unit has made the construction fail
C9_Witness ==
    /\ plugin.called
    /\ plugin.dbErr.isNil
    /\ config["i2b2.api.wait-time"] = <<"5">>
    /\ config["i2b2.api.domain"] = "d"
    /\ plugin.ret.plugin = NilDataSource
    /\ plugin.ret.err.msg = "parsing i2b2 wait time: time: missing unit in duration \"5\""

\* the wait-time of a ConnectionInfo in whole milliseconds, as a decimal string
WaittimeMs(ci) ==
    CASE ci.WaitTime = [neg |-> FALSE, ms |-> 0, ns |-> 0] -> "0"
      [] ci.WaitTime = [neg |-> FALSE, ms |-> 5000, ns |-> 0] -> "5000"
      [] ci.WaitTime = [neg |-> FALSE, ms |-> 0, ns |-> 999999] -> "0"
      [] ci.WaitTime = [neg |-> TRUE, ms |-> 1, ns |-> 500000] -> "-1"
      [] ci.WaitTime = [neg |-> FALSE, ms |-> 60000, ns |-> 0] -> "60000"

\* C10: once SetConnectionInfo has been called on a Request, ResultWaittimeMs is
\* the decimal string of the wait-time in whole milliseconds (5s gives "5000", a
\* zero wait-time "0") and ProjectID is the project of the ConnectionInfo; before
\* that call both hold "NOT_SET".
C10_WaittimeAndProject ==
    req # NoRequest =>
        IF lastOp.name = "SetConnectionInfo"
        THEN /\ req.RequestHeader.ResultWaittimeMs = WaittimeMs(lastOp.ci)
             /\ req.MessageHeader.ProjectID = lastOp.ci.Project
        ELSE /\ req.RequestHeader.ResultWaittimeMs = "NOT_SET"
             /\ req.MessageHeader.ProjectID = "NOT_SET"

\* the ConnectionInfo of project proj1 with a wait-time of 5s has been applied
C10_Witness ==
    /\ lastOp.name = "SetConnectionInfo"
    /\ lastOp.ci.Project = "proj1"
    /\ lastOp.ci.HiveURL = "http://hive.example/pm"
    /\ lastOp.ci.WaitTime = [neg |-> FALSE, ms |-> 5000, ns |-> 0]
    /\ req.RequestHeader.ResultWaittimeMs = "5000"
    /\ req.MessageHeader.ProjectID = "proj1"

====
